---- MODULE Spec2Model ----
(***************************************************************************)
(* Model of utils/decision_tree.py: one DecisionTree object, from its      *)
(* construction through render and fit calls.  fit is followed one         *)
(* _generate_node call at a time, in the order Python makes the calls      *)
(* (depth first, children in the order _split returns them).               *)
(*                                                                         *)
(* Rows of X are kept as indices into the table, a subset X[...] as the    *)
(* set of its row indices.  Entropies and gains are real numbers in the    *)
(* code; here a score is the integer number of micro-bits of n * gain,     *)
(* n being the number of rows of the node, with log2 taken from a table    *)
(* of the logarithms of the primes, so that two gains that are equal as    *)
(* real numbers are equal here and comparisons at one node keep their      *)
(* order.                                                                  *)
(***************************************************************************)
EXTENDS Integers, Sequences, FiniteSets, TLC

\* ------------------------------------------------------------------ bounds
\* largest number of rows of a training table
MaxRows == 3
\* largest number of render calls followed on one object
MaxRenders == 3

\* ------------------------------------------------------------- input space
\* X.columns, in column order
feature_names == <<"n", "p", "d">>
categorical_feature_names == <<"p", "d">>
numerical_feature_names == <<"n">>

CatValues == {0, 1}
NumValues == {0, 2}
Labels == {1, 2}

InSeq(x, s) == \E i \in 1..Len(s) : s[i] = x

\* one row of the table with its label
RowTypes == [n : NumValues, p : CatValues, d : CatValues, y : Labels]

\* rank of a row type, used only to list each table once (row order changes
\* no count the code takes); the tables followed have pairwise different rows
Rank(r) == (r.n * 8) + (r.p * 4) + (r.d * 2) + r.y

Tables ==
  UNION { { t \in [1..k -> RowTypes] :
              \A i \in 1..(k - 1) : Rank(t[i]) < Rank(t[i + 1]) } : k \in 1..MaxRows }

\* an element of available_feature_names: a feature name, or a list object
\* (what list.append puts there when the registry value is a list)
Name(f) == [isList |-> FALSE, names |-> <<f>>]
ListObj(fs) == [isList |-> TRUE, names |-> fs]

\* the special_cases argument: None, or a dict from a prerequisite to a
\* feature name (str) or to a list of feature names
NoSpecialCases == [given |-> FALSE, dict |-> <<>>]
SpecialCasesArgs ==
  { NoSpecialCases,
    [given |-> TRUE, dict |-> ("p" :> Name("d"))],
    [given |-> TRUE, dict |-> ("p" :> ListObj(<<"d">>))] }

\* constructor arguments: min_impurity_decrease is a Python number, float or
\* int, held in micro-units; min_samples_split
DefaultMinSamplesSplit == 2
Configs ==
  { [kind |-> "float", micro |-> 50000, min_samples_split |-> DefaultMinSamplesSplit],
    [kind |-> "float", micro |-> 50000, min_samples_split |-> DefaultMinSamplesSplit + 1],
    [kind |-> "float", micro |-> 0 - 50000, min_samples_split |-> DefaultMinSamplesSplit],
    [kind |-> "int", micro |-> 0, min_samples_split |-> DefaultMinSamplesSplit + 1] }

VARIABLES
  config,         \* the constructor's keyword arguments (self._min_*)
  pc,             \* "new", "fitting", "fitted" (self.tree is set), "raised"
  X,              \* the table given to fit: row index -> row
  class_names,    \* self.class_names
  special_cases,  \* the dict object the caller passed to fit
  sc_arg,         \* its contents at the moment fit was called
  stack,          \* pending _generate_node calls, next one first
  nodes,          \* path -> what the _generate_node call at that path did
  graph,          \* self.graph: <<>> when the attribute is absent, else <<node count>>
  render_result,  \* outcome of the latest render call
  renders         \* number of render calls made

vars == <<config, pc, X, class_names, special_cases, sc_arg, stack, nodes,
          graph, render_result, renders>>

\* ------------------------------------------------------------ arithmetic
RECURSIVE ExpOf(_, _)
\* exponent of the prime q in k >= 1
ExpOf(q, k) == IF k % q = 0 THEN 1 + ExpOf(q, k \div q) ELSE 0

\* math.log2(k) in micro-bits, for 1 <= k <= 10
Log2(k) ==
  (ExpOf(2, k) * 1000000) + (ExpOf(3, k) * 1584963)
    + (ExpOf(5, k) * 2321928) + (ExpOf(7, k) * 2807355)

\* n * ( -(m/n) * math.log2(m/n) ) in micro-bits
EntropyTerm(m, n) == m * (Log2(n) - Log2(m))

RECURSIVE SumOver(_, _)
\* sum of f[x] over the finite set S, f a function on S
SumOver(S, f) ==
  IF S = {} THEN 0
  ELSE LET x == CHOOSE x \in S : TRUE IN f[x] + SumOver(S \ {x}, f)

\* X[Y == class_name] restricted to the rows of the subset
RowsOfClass(rows, class_name) == { i \in rows : X[i].y = class_name }

\* ------------------------------------------------------- entropy and gain
\* n * entropy of the subset over a categorical feature
categorical_feature_entropy(rows, f) ==
  LET n == Cardinality(rows)
      values == { X[i][f] : i \in rows }
      m == [v \in values |-> Cardinality({ i \in rows : X[i][f] = v })]
  IN SumOver(values, [v \in values |->
                        IF m[v] # 0 THEN EntropyTerm(m[v], n) ELSE 0])

\* n * entropy of the subset over a numerical feature split at threshold
numerical_feature_entropy(rows, f, threshold) ==
  LET n == Cardinality(rows)
      less == Cardinality({ i \in rows : X[i][f] < threshold })
      more == Cardinality({ i \in rows : X[i][f] >= threshold })
  IN IF less = 0 /\ more = 0 THEN 0
     ELSE IF less = 0 THEN EntropyTerm(more, n)
     ELSE IF more = 0 THEN EntropyTerm(less, n)
     ELSE EntropyTerm(less, n) + EntropyTerm(more, n)

\* A * gain for a categorical feature: a - b, where A * (A_i/A) * entropy(x)
\* is A_i * entropy(x)
categorical_information_gain(rows, f) ==
  LET a == categorical_feature_entropy(rows, f)
      b == SumOver({ c \in 1..Len(class_names) : TRUE },
                   [c \in 1..Len(class_names) |->
                      categorical_feature_entropy(RowsOfClass(rows, class_names[c]), f)])
  IN a - b

\* A * gain of the binary split at one threshold
NumericalGainAt(rows, f, threshold) ==
  LET a == numerical_feature_entropy(rows, f, threshold)
      b == SumOver({ c \in 1..Len(class_names) : TRUE },
                   [c \in 1..Len(class_names) |->
                      numerical_feature_entropy(RowsOfClass(rows, class_names[c]), f,
                                                threshold)])
  IN a - b

MaxOf(S) == CHOOSE m \in S : \A x \in S : x <= m

RECURSIVE NumericalScan(_, _, _, _, _)
\* the loop over range(int(X[f].max())), from threshold on, with the best
\* (gain, threshold) so far; best_threshold is <<>> for None
NumericalScan(rows, f, threshold, last, best) ==
  IF threshold > last THEN best
  ELSE LET gain == NumericalGainAt(rows, f, threshold)
       IN NumericalScan(rows, f, threshold + 1, last,
            IF best.score < gain
              THEN [score |-> gain, threshold |-> <<threshold>>]
              ELSE best)

\* (best_gain, best_threshold) of a numerical feature
numerical_information_gain(rows, f) ==
  NumericalScan(rows, f, 0, MaxOf({ X[i][f] : i \in rows }) - 1,
                [score |-> 0, threshold |-> <<>>])

\* the gain of one feature name: a float, a tuple, or None
information_gain(rows, f) ==
  IF InSeq(f, categorical_feature_names)
    THEN [kind |-> "float", score |-> categorical_information_gain(rows, f),
          threshold |-> <<>>]
  ELSE IF InSeq(f, numerical_feature_names)
    THEN [kind |-> "tuple"] @@ numerical_information_gain(rows, f)
  ELSE [kind |-> "None", score |-> 0, threshold |-> <<>>]

\* --------------------------------------------------------------- lists
\* list.remove(e): the list without the first occurrence of e
Remove(list, e) ==
  LET k == CHOOSE j \in 1..Len(list) :
             list[j] = e /\ \A h \in 1..(j - 1) : list[h] # e
  IN [j \in 1..(Len(list) - 1) |-> IF j < k THEN list[j] ELSE list[j + 1]]

RECURSIVE RemoveEach(_, _)
\* list.remove(name) for every name of the sequence, in order
RemoveEach(list, names) ==
  IF names = <<>> THEN list
  ELSE RemoveEach(Remove(list, Name(Head(names))), Tail(names))

RECURSIVE RemoveDependents(_, _, _)
\* the loop of fit over special_cases.values(): a str value is removed, the
\* names of a list value are removed one by one
RemoveDependents(list, dict, keys) ==
  IF keys = {} THEN list
  ELSE LET k == CHOOSE k \in keys : TRUE
       IN RemoveDependents(RemoveEach(list, dict[k].names), dict, keys \ {k})

\* "if special_cases:" -- neither None nor an empty dict
Truthy(sc) == sc.given /\ DOMAIN sc.dict # {}

\* a fit that leaves the dependents in the initial list
InitialAvailable_All(sc) == [j \in 1..Len(feature_names) |-> Name(feature_names[j])]

\* available_feature_names as fit hands it to the root call
InitialAvailable(sc) ==
  LET all == [j \in 1..Len(feature_names) |-> Name(feature_names[j])]
  IN IF Truthy(sc) THEN RemoveDependents(all, sc.dict, DOMAIN sc.dict) ELSE all

RECURSIVE SortedSeq(_)
\* sorted(list(set(...)))
SortedSeq(S) ==
  IF S = {} THEN <<>>
  ELSE LET m == CHOOSE m \in S : \A x \in S : m <= x
       IN <<m>> \o SortedSeq(S \ {m})

\* all orders in which a set's elements can come out of a Python set
Orders(S) ==
  { o \in [1..Cardinality(S) -> S] : \A v \in S : \E j \in DOMAIN o : o[j] = v }

\* ------------------------------------------------------- _generate_node
\* the comparison chain of the selection loop: does current_gain replace
\* best_gain?  An int best_gain and a None current_gain match no branch.
Replaces(best, current) ==
  IF best.kind = "float" /\ current.kind = "float" THEN best.score < current.score
  ELSE IF best.kind = "tuple" /\ current.kind = "float" THEN best.score < current.score
  ELSE IF best.kind = "float" /\ current.kind = "tuple" THEN best.score < current.score
  ELSE IF best.kind = "tuple" /\ current.kind = "tuple" THEN best.score < current.score
  ELSE FALSE

RECURSIVE SelectBest(_, _, _, _)
\* the loop over available_feature_names from position j on; best holds
\* best_gain (kind, score, threshold) and best_feature (<<>> for None)
SelectBest(rows, available, j, best) ==
  IF j > Len(available) THEN best
  ELSE LET f == available[j].names[1]
           current == information_gain(rows, f)
       IN SelectBest(rows, available, j + 1,
            IF Replaces(best, current)
              THEN [kind |-> current.kind, score |-> current.score,
                    threshold |-> current.threshold, feature |-> <<f>>]
              ELSE best)

\* best_gain = self._min_impurity_decrease, scaled by the rows of the node
StartGain(rows) ==
  [kind |-> config.kind, score |-> Cardinality(rows) * config.micro,
   threshold |-> <<>>, feature |-> <<>>]

BestOf(rows, available) == SelectBest(rows, available, 1, StartGain(rows))

\* a count taken over the whole table instead of the node's subset
Distribution_WholeTable(rows) ==
  [c \in 1..Len(class_names) |->
     Cardinality(RowsOfClass(1..Len(X), class_names[c]))]

\* distribution: one count per class of self.class_names, in its order
Distribution(rows) ==
  [c \in 1..Len(class_names) |-> Cardinality(RowsOfClass(rows, class_names[c]))]

\* label: the first class with the largest count
LabelOf(rows) ==
  LET dist == Distribution(rows)
      c == CHOOSE c \in 1..Len(class_names) :
             /\ \A e \in 1..Len(class_names) : dist[e] <= dist[c]
             /\ \A e \in 1..(c - 1) : dist[e] < dist[c]
  IN class_names[c]

\* a build that forgets the removal of the chosen categorical feature
AfterCategoricalRemoval_Kept(available, f) == available

\* the list after "if best_feature in self.categorical_feature_names: remove"
AfterCategoricalRemoval(available, f) ==
  IF InSeq(f, categorical_feature_names) THEN Remove(available, Name(f)) ELSE available

\* does this call consume a key of the registry?
Consumes(f) == Truthy(special_cases) /\ f \in DOMAIN special_cases.dict

\* the list after available_feature_names.append(special_cases[best_feature])
AfterUnlock(available, f) ==
  IF Consumes(f) THEN Append(available, special_cases.dict[f]) ELSE available

\* the list the children receive
ChildAvailable(available, f) == AfterUnlock(AfterCategoricalRemoval(available, f), f)

\* a build that leaves the consumed key in the registry
AfterPop_Kept(f) == special_cases

\* the registry after special_cases.pop(best_feature)
AfterPop(f) ==
  IF Consumes(f)
    THEN [special_cases EXCEPT
            !.dict = [k \in (DOMAIN special_cases.dict) \ {f} |-> special_cases.dict[k]]]
    ELSE special_cases

\* _categorical_split: one part per value observed in the subset, in the
\* order the set of values is iterated
categorical_split(rows, f, order) ==
  [j \in 1..Len(order) |->
     [rows |-> { i \in rows : X[i][f] = order[j] },
      feature_value |-> [op |-> "==", v |-> order[j]]]]

\* _numerical_split: "< threshold" then ">= threshold"
numerical_split(rows, f, threshold) ==
  << [rows |-> { i \in rows : X[i][f] < threshold },
      feature_value |-> [op |-> "<", v |-> threshold]],
     [rows |-> { i \in rows : X[i][f] >= threshold },
      feature_value |-> [op |-> ">=", v |-> threshold]] >>

\* a split that partitions the whole table instead of the node's subset
Split_WholeTable(rows, f, best, order) ==
  IF InSeq(f, categorical_feature_names) THEN categorical_split(1..Len(X), f, order)
  ELSE numerical_split(1..Len(X), f, best.threshold[1])

\* _split
Split(rows, f, best, order) ==
  IF InSeq(f, categorical_feature_names) THEN categorical_split(rows, f, order)
  ELSE numerical_split(rows, f, best.threshold[1])

\* the iteration orders _split can meet for this choice
SplitOrders(rows, best) ==
  IF best.feature # <<>> /\ InSeq(best.feature[1], categorical_feature_names)
       /\ Cardinality(rows) >= config.min_samples_split
    THEN Orders({ X[i][best.feature[1]] : i \in rows })
    ELSE { <<>> }

\* a list object among the names makes X[feature_name].isnull().any() a
\* Series, whose truth value raises ValueError
RaisesInLoop(available) == \E j \in 1..Len(available) : available[j].isList

\* a numerical winner without threshold raises in the comparison of _split
RaisesInSplit(rows, best) ==
  /\ best.feature # <<>>
  /\ Cardinality(rows) >= config.min_samples_split
  /\ InSeq(best.feature[1], numerical_feature_names)
  /\ best.threshold = <<>>

\* ------------------------------------------------------------- actions
RootValue == [op |-> "None", v |-> 0]

\* what one _generate_node call computes before it builds its children:
\* the fields of its Node, the lists it saw and handed on, and the parts
\* its children are built from
NodeOf(call, best, parts) ==
  [split_feature |-> best.feature,
   feature_value |-> call.feature_value,
   rows |-> call.rows,
   samples |-> Cardinality(call.rows),
   distribution |-> Distribution(call.rows),
   label |-> LabelOf(call.rows),
   best_gain |-> [kind |-> best.kind, score |-> best.score, threshold |-> best.threshold],
   available |-> call.available,
   child_available |->
     IF best.feature = <<>> THEN call.available
     ELSE ChildAvailable(call.available, best.feature[1]),
   consumed |-> best.feature # <<>> /\ Consumes(best.feature[1]),
   parts |-> [j \in 1..Len(parts) |-> parts[j].rows],
   childs |-> Len(parts),
   order |-> Cardinality(DOMAIN nodes) + 1]

\* the calls for the children, first child first
ChildCalls(call, best, parts) ==
  [j \in 1..Len(parts) |->
     [path |-> Append(call.path, j),
      rows |-> parts[j].rows,
      feature_value |-> parts[j].feature_value,
      available |-> ChildAvailable(call.available, best.feature[1])]]

Init ==
  /\ config \in Configs
  /\ pc = "new"
  /\ X = <<>>
  /\ class_names = <<>>
  /\ special_cases = NoSpecialCases
  /\ sc_arg = NoSpecialCases
  /\ stack = <<>>
  /\ nodes = <<>>
  /\ graph = <<>>
  /\ render_result = "none"
  /\ renders = 0

\* fit, up to its call of _generate_node for the root
FitCall(table, sc) ==
  /\ X' = table
  /\ class_names' = SortedSeq({ table[i].y : i \in 1..Len(table) })
  /\ special_cases' = sc
  /\ sc_arg' = sc
  /\ stack' = << [path |-> <<>>, rows |-> 1..Len(table), feature_value |-> RootValue,
                  available |-> InitialAvailable(sc)] >>
  /\ nodes' = <<>>
  /\ pc' = "fitting"
  /\ UNCHANGED <<config, graph, render_result, renders>>

\* a fit call on the new object, with any table and special_cases
Fit ==
  /\ pc = "new"
  /\ \E table \in Tables, sc \in SpecialCasesArgs : FitCall(table, sc)

\* one _generate_node call: selection, node fields, eligibility update and
\* the split; its children's calls come next, before any pending sibling.
\* When the last call returns, fit stores the root in self.tree.
GenerateNode ==
  /\ pc = "fitting"
  /\ stack # <<>>
  /\ LET call == Head(stack)
         best == BestOf(call.rows, call.available)
     IN IF RaisesInLoop(call.available) \/ RaisesInSplit(call.rows, best)
          THEN /\ pc' = "raised"
               /\ stack' = <<>>
               /\ UNCHANGED <<nodes, special_cases>>
          ELSE \E order \in SplitOrders(call.rows, best) :
                 LET parts == IF best.feature # <<>>
                                   /\ Cardinality(call.rows) >= config.min_samples_split
                                THEN Split(call.rows, best.feature[1], best, order)
                                ELSE <<>>
                     rest == IF best.feature = <<>> THEN Tail(stack)
                             ELSE ChildCalls(call, best, parts) \o Tail(stack)
                 IN /\ nodes' = nodes @@ (call.path :> NodeOf(call, best, parts))
                    /\ special_cases' =
                         IF best.feature = <<>> THEN special_cases
                         ELSE AfterPop(best.feature[1])
                    /\ stack' = rest
                    /\ pc' = IF rest = <<>> THEN "fitted" ELSE "fitting"
  /\ UNCHANGED <<config, X, class_names, sc_arg, graph, render_result, renders>>

\* render: _create_graph when self.graph is missing (the Digraph is stored
\* before self.tree is read), then the stored graph is returned
Render ==
  /\ pc \in {"new", "fitted", "raised"}
  /\ renders < MaxRenders
  /\ renders' = renders + 1
  /\ IF graph = <<>>
       THEN IF pc = "fitted"
              THEN /\ graph' = << Cardinality(DOMAIN nodes) >>
                   /\ render_result' = "graph"
              ELSE /\ graph' = << 0 >>
                   /\ render_result' = "AttributeError"
       ELSE /\ graph' = graph
            /\ render_result' = "graph"
  /\ UNCHANGED <<config, pc, X, class_names, special_cases, sc_arg, stack, nodes>>

\* the build: one fit call on a new object
Next ==
  \/ Fit
  \/ GenerateNode

Spec == Init /\ [][Next]_vars

\* the object's whole interface: render calls before and after the fit call
NextRender ==
  \/ Fit
  \/ GenerateNode
  \/ Render

RenderSpec == Init /\ [][NextRender]_vars

\* ------------------------------------------------------------ the tree
\* a is a proper ancestor of b
ProperAncestor(a, b) == Len(a) < Len(b) /\ SubSeq(b, 1, Len(a)) = a

\* the node splits on feature f
SplitsOn(a, f) == nodes[a].split_feature = <<f>>

\* the (prerequisite, dependent) pairs of the mapping given to fit
Dependencies ==
  { pair \in (DOMAIN sc_arg.dict) \X { feature_names[j] : j \in 1..Len(feature_names) } :
      InSeq(pair[2], sc_arg.dict[pair[1]].names) }

\* the gain score of an eligible name at a node
ScoreAt(a, j) == information_gain(nodes[a].rows, nodes[a].available[j].names[1]).score

\* min_impurity_decrease on the scale of the node's scores
BarAt(a) == nodes[a].samples * config.micro

\* ------------------------------------------------------------------ C1
\* C1: no categorical feature is the split feature of two nodes on one
\* root-to-leaf path; once a node chooses a categorical feature, the
\* eligible list of every node below it is without that feature.
C1_CategoricalOncePerPath ==
  \A a \in DOMAIN nodes : \A b \in DOMAIN nodes :
    ( /\ ProperAncestor(a, b)
      /\ nodes[a].split_feature # <<>>
      /\ InSeq(nodes[a].split_feature[1], categorical_feature_names) )
    => /\ nodes[b].split_feature # nodes[a].split_feature
       /\ ~InSeq(Name(nodes[a].split_feature[1]), nodes[b].available)

\* a built tree where a node below a categorical split splits again
C1_Witness ==
  /\ pc = "fitted"
  /\ \E a \in DOMAIN nodes : \E b \in DOMAIN nodes :
       /\ ProperAncestor(a, b)
       /\ nodes[a].split_feature # <<>>
       /\ InSeq(nodes[a].split_feature[1], categorical_feature_names)
       /\ nodes[b].split_feature # <<>>

\* ------------------------------------------------------------------ C2
\* C2: a dependent feature of the mapping given to fit is a node's split
\* feature only if its prerequisite is the split feature of a proper
\* ancestor of that node.
C2_DependentBelowPrerequisite ==
  \A pair \in Dependencies : \A b \in DOMAIN nodes :
    SplitsOn(b, pair[2])
      => \E a \in DOMAIN nodes : ProperAncestor(a, b) /\ SplitsOn(a, pair[1])

\* a built tree that splits on a dependent feature
C2_Witness ==
  /\ pc = "fitted"
  /\ \E pair \in Dependencies : \E b \in DOMAIN nodes : SplitsOn(b, pair[2])

C4_CallerMappingUnchanged == pc = "fitted" => special_cases = sc_arg

\* ------------------------------------------------------------------ C5
\* C5: when the chosen feature is a key of the registry, each of its
\* dependents, given as one name or as a list of names, is a feature name
\* of the list handed to the node's children, and the key is removed.
C5_DependentsAddedByName ==
  \A a \in DOMAIN nodes :
    nodes[a].consumed =>
      /\ nodes[a].split_feature[1] \notin DOMAIN special_cases.dict
      /\ \A pair \in Dependencies :
           SplitsOn(a, pair[1]) => InSeq(Name(pair[2]), nodes[a].child_available)

\* ------------------------------------------------------------------ C6
\* C6: every node's distribution has one count per class, in sorted class
\* order, the counts sum to the node's samples, and the root's samples is
\* the number of rows given to fit.
C6_DistributionSumsToSamples ==
  /\ \A c \in 1..(Len(class_names) - 1) : class_names[c] < class_names[c + 1]
  /\ \A a \in DOMAIN nodes :
       /\ Len(nodes[a].distribution)
            = Cardinality({ X[i].y : i \in 1..Len(X) })
       /\ \A c \in 1..Len(nodes[a].distribution) :
            /\ c <= Len(class_names)
            /\ nodes[a].distribution[c]
                 = Cardinality({ i \in nodes[a].rows : X[i].y = class_names[c] })
       /\ SumOver(DOMAIN nodes[a].distribution, nodes[a].distribution)
            = nodes[a].samples
  /\ <<>> \in DOMAIN nodes => nodes[<<>>].samples = Len(X)

\* a built tree with a split, over a table of two classes
C6_Witness ==
  /\ pc = "fitted"
  /\ Len(class_names) > 1
  /\ \E a \in DOMAIN nodes : nodes[a].childs > 0 /\ a # <<>>

\* ------------------------------------------------------------ C7 and C9
\* the first eligible feature whose score is the largest at the node
FirstMaximal(a) ==
  LET k == CHOOSE j \in 1..Len(nodes[a].available) :
             /\ \A h \in 1..Len(nodes[a].available) : ScoreAt(a, h) <= ScoreAt(a, j)
             /\ \A h \in 1..(j - 1) : ScoreAt(a, h) < ScoreAt(a, j)
  IN nodes[a].available[k].names[1]

\* some eligible feature's score strictly exceeds min_impurity_decrease
ClearsBar(a) == \E j \in 1..Len(nodes[a].available) : ScoreAt(a, j) > BarAt(a)

\* C7: a node with fewer rows than min_samples_split at which some eligible
\* feature's gain exceeds min_impurity_decrease keeps the winning feature as
\* split_feature and has no children; a node has children only if its
\* split_feature is set and its samples is at least min_samples_split.
C7_SplitKeptWithoutChildren ==
  \A a \in DOMAIN nodes :
    /\ (nodes[a].samples < config.min_samples_split /\ ClearsBar(a))
         => (SplitsOn(a, FirstMaximal(a)) /\ nodes[a].childs = 0)
    /\ nodes[a].childs > 0
         => ( /\ nodes[a].split_feature # <<>>
              /\ nodes[a].samples >= config.min_samples_split )

\* C9: for any configured min_impurity_decrease, split_feature is the first
\* eligible feature whose score is the largest, provided that score strictly
\* exceeds min_impurity_decrease; otherwise the node has neither split
\* feature nor children.
C9_FirstMaximalFeatureWins ==
  \A a \in DOMAIN nodes :
    IF ClearsBar(a)
      THEN SplitsOn(a, FirstMaximal(a))
      ELSE nodes[a].split_feature = <<>> /\ nodes[a].childs = 0

\* ------------------------------------------------------------------ C8
\* C8: no render call made before fit returns a graph, however many render
\* calls came before it.
C8_RenderBeforeFitFails == (pc = "new" /\ renders > 0) => render_result = "AttributeError"

====
